---- MODULE Spec2Model ----
(***************************************************************************)
(* Model of the xmlsec gateway (src/xmlsec/xmlsec.go) and of the assertion *)
(* issuance pipeline of the identity provider (src/unnamed/part_000).      *)
(*                                                                         *)
(* Byte slices and Go strings are TLA+ strings; TLC evaluates Len, \o and  *)
(* SubSeq on them, so prefix tests, substring search and trimming are      *)
(* computed character by character, as the Go library does.                *)
(***************************************************************************)
EXTENDS Integers, Sequences, FiniteSets, TLC

VARIABLES
    \* ---- classification / exception policy (xmlsecErr, IsSecurityException)
    cPc,        \* "input", "classified" or "raw", then "gated" or "gatedRaw"
    cIn,        \* the text handed to xmlsecErr
    cOpts,      \* the SecurityOpts value
    cErr,       \* the error value under consideration
    cSec        \* result of IsSecurityException(cErr, cOpts)

classifyVars == <<cPc, cIn, cOpts, cErr, cSec>>

VARIABLES
    \* ---- one gateway invocation (Sign, Verify, Encrypt or Decrypt)
    op,         \* which of the four functions runs
    pc,         \* the statement the invocation is at
    inLeft,     \* chunks of `in` that stdin.Write has not yet put in the pipe
    stdinPipe,  \* chunks buffered in the stdin pipe
    stdinClosed,\* stdin.Close() has run
    stdoutPipe, \* chunks buffered in the stdout pipe
    stderrPipe, \* chunks buffered in the stderr pipe
    childPc,    \* the child process: "none", "run", blocked in a call, "exited"
    childOut,   \* chunks the child has still to write to its stdout
    childErr,   \* chunks the child has still to write to its stderr
    outOpen,    \* the child's end of the stdout pipe is open
    errOpen,    \* the child's end of the stderr pipe is open
    res,        \* bytes accumulated by ioutil.ReadAll(outbr)
    resErr,     \* bytes accumulated by ioutil.ReadAll(errbr)
    waitErr,    \* what cmd.Wait returns once the child has exited
    waited,     \* cmd.Wait has returned
    ret,        \* the values the function returned
    tmpFile,    \* Encrypt's template file: "none", "exists", "removed"
    tmpName,    \* fp.Name(): the name ioutil.TempFile gave that file
    otherTemps  \* the template files other invocations hold in /tmp

gatewayVars == <<op, pc, inLeft, stdinPipe, stdinClosed, stdoutPipe, stderrPipe,
                 childPc, childOut, childErr, outOpen, errOpen, res, resErr,
                 waitErr, waited, ret, tmpFile, tmpName, otherTemps>>

VARIABLES
    \* ---- the argument list Sign and Verify hand to exec.Command
    aPc,        \* "input" | "built"
    aOp,        \* "sign" | "verify"
    aPath,      \* privateKeyPath / publicCertPath
    aOpts,      \* the *ValidationOptions argument
    args        \* the []string built

argsVars == <<aPc, aOp, aPath, aOpts, args>>

VARIABLES
    \* ---- the identity provider and the requests it serves
    idp,        \* the IdentityProvider the requests share
    req,        \* req[r]: the fields of IdpAuthnRequest r
    mPc,        \* mPc[r]: where MarshalAssertion of r stands
    mBuf,       \* mBuf[r]: its local buf
    mCert,      \* mCert[r]: its local spCertFile
    mSign,      \* mSign[r]: what xmlsec.Sign returned to it
    mEnc,       \* mEnc[r]: what xmlsec.Encrypt returned to it
    mRet,       \* mRet[r]: the error MarshalAssertion returned
    mCalls,     \* mCalls[r]: the gateway calls it has made, in order
    mBefore,    \* mBefore[r]: req[r].AssertionBuffer when it was called
    nCalls,     \* calls made on the requests so far, on any request
    session,    \* session[r]: the Session handed to MakeAssertion of r
    aRet,       \* aRet[r]: the error MakeAssertion returned
    rPc,        \* rPc[r]: where MakeResponse of r stands
    rRet,       \* rRet[r]: the error MakeResponse returned
    clock,      \* the time the source behind Now shows
    clockStep,  \* the most the source advances between two readings
    nextID      \* the state of the generator behind NewID

idpVars == <<idp, req, mPc, mBuf, mCert, mSign, mEnc, mRet, mCalls, mBefore, nCalls,
             session, aRet, rPc, rRet, clock, clockStep, nextID>>

vars == <<classifyVars, gatewayVars, argsVars, idpVars>>

\* what the actions of one specification leave alone
notClassify == <<gatewayVars, argsVars, idpVars>>
notGateway == <<classifyVars, argsVars, idpVars>>
notArgs == <<classifyVars, gatewayVars, idpVars>>
notIdp == <<classifyVars, gatewayVars, argsVars>>

---------------------------------------------------------------------------
(* Bounds *)

\* longest text, in fragments, handed to the classifier
MaxFrags == 2
\* chunks a pipe buffers before a write on it blocks
PipeCap == 1
\* largest input, in chunks: one more than a pipe buffers
MaxIn == PipeCap + 1
\* most chunks the child writes to its stdout, and to its stderr
MaxOut == PipeCap + 1
MaxErr == PipeCap + 1
\* most entries of ValidationOptions.IDAttrs
MaxIDAttrs == 2
\* calls on the requests in one run, over all requests
MaxCalls == 2
\* most entries of Session.Groups
MaxGroups == 2
\* most endpoints a service provider's metadata lists
MaxEndpoints == 2
\* the most a running clock advances between two readings, in seconds
MaxTick == 1

---------------------------------------------------------------------------
(* strings, bytes: the library functions the code calls *)

\* strings.HasPrefix
HasPrefix(s, prefix) ==
    /\ Len(s) >= Len(prefix)
    /\ SubSeq(s, 1, Len(prefix)) = prefix

\* strings.Contains / bytes.Contains
Contains(s, substr) ==
    \E i \in 1..(Len(s) - Len(substr) + 1) :
        SubSeq(s, i, i + Len(substr) - 1) = substr

\* unicode.IsSpace on the characters the inputs use
IsSpace(c) == c \in {" ", "\n", "\t", "\r"}

RECURSIVE TrimLeftSpace(_)
TrimLeftSpace(s) ==
    IF Len(s) > 0 /\ IsSpace(SubSeq(s, 1, 1))
    THEN TrimLeftSpace(SubSeq(s, 2, Len(s)))
    ELSE s

RECURSIVE TrimRightSpace(_)
TrimRightSpace(s) ==
    IF Len(s) > 0 /\ IsSpace(SubSeq(s, Len(s), Len(s)))
    THEN TrimRightSpace(SubSeq(s, 1, Len(s) - 1))
    ELSE s

\* strings.TrimSpace / bytes.TrimSpace
TrimSpace(s) == TrimRightSpace(TrimLeftSpace(s))

\* bytes.TrimPrefix
TrimPrefix(s, prefix) ==
    IF HasPrefix(s, prefix) THEN SubSeq(s, Len(prefix) + 1, Len(s)) ELSE s

---------------------------------------------------------------------------
(* error values: the dynamic type of the Go error and its message *)

Nil == [type |-> "nil", msg |-> ""]

\* fmt.Errorf("xmlsec: %s", strings.TrimSpace(s))
Errorf(s) == [type |-> "errorString", msg |-> "xmlsec: " \o TrimSpace(s)]

ErrValidityError(err) == [type |-> "ErrValidityError", msg |-> err.msg]
ErrSelfSignedCertificate(err) == [type |-> "ErrSelfSignedCertificate", msg |-> err.msg]
ErrUnknownIssuer(err) == [type |-> "ErrUnknownIssuer", msg |-> err.msg]

\* *exec.ExitError returned by cmd.Wait for a non-zero exit status
ExitError == [type |-> "ExitError", msg |-> "exit status 1"]
\* write on a pipe whose reader is gone
EPIPE == [type |-> "PathError", msg |-> "write |1: broken pipe"]
\* cmd.Start failure
StartError == [type |-> "exec.Error", msg |-> "exec: \"xmlsec1\": executable file not found in $PATH"]

\* xmlsecErr with the validity test moved above the signature test
xmlsecErr_ValidityFirst(s) ==
    LET err == Errorf(s) IN
    IF HasPrefix(s, "OK") THEN Nil
    ELSE IF Contains(err.msg, "validity error") THEN ErrValidityError(err)
    ELSE IF Contains(err.msg, "signature failed") THEN err
    ELSE IF Contains(err.msg, "msg=self signed certificate") THEN ErrSelfSignedCertificate(err)
    ELSE IF Contains(err.msg, "msg=unable to get local issuer certificate") THEN ErrUnknownIssuer(err)
    ELSE err

xmlsecErr(s) ==
    LET err == Errorf(s) IN
    IF HasPrefix(s, "OK") THEN Nil
    ELSE IF Contains(err.msg, "signature failed") THEN err
    ELSE IF Contains(err.msg, "validity error") THEN ErrValidityError(err)
    ELSE IF Contains(err.msg, "msg=self signed certificate") THEN ErrSelfSignedCertificate(err)
    ELSE IF Contains(err.msg, "msg=unable to get local issuer certificate") THEN ErrUnknownIssuer(err)
    ELSE err

isValidityError(output) == Contains(output, "validity error")

SecurityOpts == [AllowSelfSignedCert : BOOLEAN, TrustUnknownAuthority : BOOLEAN]

\* IsSecurityException testing AllowSelfSignedCert for both kinds
IsSecurityException_OneFlag(err, opts) ==
    IF err.type = "ErrSelfSignedCertificate" /\ opts.AllowSelfSignedCert THEN FALSE
    ELSE IF err.type = "ErrUnknownIssuer" /\ opts.AllowSelfSignedCert THEN FALSE
    ELSE TRUE

IsSecurityException(err, opts) ==
    IF err.type = "ErrSelfSignedCertificate" /\ opts.AllowSelfSignedCert THEN FALSE
    ELSE IF err.type = "ErrUnknownIssuer" /\ opts.TrustUnknownAuthority THEN FALSE
    ELSE TRUE

---------------------------------------------------------------------------
(* The argument lists of Sign and Verify *)

attrNameResponse == "urn:oasis:names:tc:SAML:2.0:protocol:Response"
attrNameAssertion == "urn:oasis:names:tc:SAML:2.0:assertion:Assertion"
attrNameAuthnRequest == "urn:oasis:names:tc:SAML:2.0:protocol:AuthnRequest"

\* opts == nil
NilOptions == [nil |-> TRUE]
ValidationOptions(dtd, hack, ids) ==
    [nil |-> FALSE, DTDFile |-> dtd, EnableIDAttrHack |-> hack, IDAttrs |-> ids]

\* for _, v := range opts.IDAttrs { *args = append(*args, "--id-attr:ID", v) }
RECURSIVE IDAttrArgs(_)
IDAttrArgs(ids) ==
    IF ids = <<>> THEN <<>>
    ELSE <<"--id-attr:ID", Head(ids)>> \o IDAttrArgs(Tail(ids))

\* applyOptions appending opts.IDAttrs without the "--id-attr:ID" flag
applyOptions_RawIDAttrs(a, opts) ==
    IF opts.nil THEN a
    ELSE LET a1 == IF opts.DTDFile # ""
                   THEN a \o <<"--dtd-file", opts.DTDFile>>
                   ELSE a
         IN  IF opts.EnableIDAttrHack
             THEN a1 \o <<"--id-attr:ID", attrNameResponse,
                          "--id-attr:ID", attrNameAssertion,
                          "--id-attr:ID", attrNameAuthnRequest>>
                     \o opts.IDAttrs
             ELSE a1

applyOptions(a, opts) ==
    IF opts.nil THEN a
    ELSE LET a1 == IF opts.DTDFile # ""
                   THEN a \o <<"--dtd-file", opts.DTDFile>>
                   ELSE a
         IN  IF opts.EnableIDAttrHack
             THEN a1 \o <<"--id-attr:ID", attrNameResponse,
                          "--id-attr:ID", attrNameAssertion,
                          "--id-attr:ID", attrNameAuthnRequest>>
                     \o IDAttrArgs(opts.IDAttrs)
             ELSE a1

\* Verify: args up to exec.Command
VerifyArgs(publicCertPath, opts) ==
    applyOptions(<<"xmlsec1", "--verify",
                   "--pubkey-cert-pem", publicCertPath,
                   "--enabled-reference-uris", "empty,same-doc">>, opts)
        \o <<"/dev/stdin">>

\* Sign: args up to exec.Command
SignArgs(privateKeyPath, opts) ==
    applyOptions(<<"xmlsec1", "--sign",
                   "--privkey-pem", privateKeyPath,
                   "--enabled-reference-uris", "empty,same-doc">>, opts)
        \o <<"--output", "/dev/stdout", "/dev/stdin">>

\* the argument variables while another specification runs
ArgsIdle ==
    /\ aPc = "input"
    /\ aOp = "sign"
    /\ aPath = ""
    /\ aOpts = NilOptions
    /\ args = <<>>

\* the classification variables while another specification runs
ClassifyIdle ==
    /\ cPc = "input"
    /\ cIn = ""
    /\ cOpts = [AllowSelfSignedCert |-> FALSE, TrustUnknownAuthority |-> FALSE]
    /\ cErr = Nil
    /\ cSec = FALSE

---------------------------------------------------------------------------
(* The gateway: what each function returns once cmd.Wait has returned *)

\* a []byte result: nil, or the bytes read
NilBytes == [nil |-> TRUE, b |-> ""]
Bytes(s) == [nil |-> FALSE, b |-> s]

Ops == {"sign", "verify", "encrypt", "decrypt"}

\* Encrypt, after ioutil.ReadAll(errbr)
EncryptReturn(r, rErr, wErr) ==
    IF wErr # Nil
    THEN IF Len(rErr) > 0
         THEN [out |-> Bytes(r), err |-> xmlsecErr(rErr)]
         ELSE [out |-> NilBytes, err |-> wErr]
    ELSE [out |-> Bytes(r), err |-> Nil]

\* Decrypt, after ioutil.ReadAll(errbr)
DecryptReturn(r, rErr, wErr) ==
    IF wErr # Nil
    THEN IF Len(rErr) > 0
         THEN [out |-> Bytes(r), err |-> xmlsecErr(rErr)]
         ELSE [out |-> NilBytes, err |-> wErr]
    ELSE [out |-> Bytes(r), err |-> Nil]

\* Verify, after ioutil.ReadAll(errbr); Verify returns an error only
VerifyReturn(r, rErr, wErr) ==
    IF wErr # Nil \/ isValidityError(rErr)
    THEN IF Len(rErr) > 0
         THEN [out |-> NilBytes, err |-> xmlsecErr(r \o "\n" \o rErr)]
         ELSE [out |-> NilBytes, err |-> wErr]
    ELSE [out |-> NilBytes, err |-> Nil]

\* Sign, after ioutil.ReadAll(errbr)
SignReturn(r, rErr, wErr) ==
    IF wErr # Nil \/ isValidityError(rErr)
    THEN IF Len(rErr) > 0
         THEN [out |-> Bytes(r), err |-> xmlsecErr(r \o "\n" \o rErr)]
         ELSE [out |-> NilBytes, err |-> wErr]
    ELSE [out |-> Bytes(r), err |-> Nil]

Return(o, r, rErr, wErr) ==
    CASE o = "sign"    -> SignReturn(r, rErr, wErr)
      [] o = "verify"  -> VerifyReturn(r, rErr, wErr)
      [] o = "encrypt" -> EncryptReturn(r, rErr, wErr)
      [] o = "decrypt" -> DecryptReturn(r, rErr, wErr)

\* no value returned yet
NoReturn == [out |-> NilBytes, err |-> [type |-> "pending", msg |-> ""]]

\* failures of the calls made before the child runs
TempFileError == [type |-> "PathError", msg |-> "open /tmp/xmlsec: no space left on device"]
PipeError == [type |-> "SyscallError", msg |-> "pipe: too many open files"]

---------------------------------------------------------------------------
(* The identity provider: data and helpers *)

Reqs == {1, 2}

\* (*Metadata)(nil), (*SPSSODescriptor)(nil), (*Assertion)(nil)
NilMetadata == [nil |-> TRUE]
NilDescriptor == [nil |-> TRUE]
NilAssertion == [nil |-> TRUE]

Metadata(entityID, descriptor) ==
    [nil |-> FALSE, EntityID |-> entityID, SPSSODescriptor |-> descriptor]
SPSSODescriptor(keys, acs) ==
    [nil |-> FALSE, KeyDescriptor |-> keys, AssertionConsumerService |-> acs]
KeyDescriptor(use, cert) == [Use |-> use, Certificate |-> cert]

\* (*IndexedEndpoint)(nil), (*Response)(nil), (*pem.Block)(nil)
NilEndpoint == [nil |-> TRUE]
NilResponse == [nil |-> TRUE]
NilCert == [nil |-> TRUE]
IndexedEndpoint(binding, location) ==
    [nil |-> FALSE, Binding |-> binding, Location |-> location]
HTTPPostBinding == "urn:oasis:names:tc:SAML:2.0:bindings:HTTP-POST"
HTTPRedirectBinding == "urn:oasis:names:tc:SAML:2.0:bindings:HTTP-Redirect"

\* const IssueLifetime = time.Second * 90, in seconds
IssueLifetime == 90

\* an error made by errors.New
ErrorsNew(text) == [type |-> "fundamental", msg |-> text]

\* xml.Marshal(req.Assertion)
xmlMarshal(assertion) ==
    IF assertion.nil THEN ""
    ELSE "<Assertion ID=\"" \o assertion.ID \o "\"><Recipient>"
            \o assertion.Subject.SubjectConfirmation.SubjectConfirmationData.Recipient
            \o "</Recipient></Assertion>"

\* writeFile: the path of a fresh file holding the content
writeFile(content) == "/tmp/saml-" \o content

\* IdentityProvider.PrivkeyFile
PrivkeyFile(i) ==
    IF i.KeyFile # "" THEN [path |-> i.KeyFile, err |-> Nil]
    ELSE IF i.PrivkeyPEM # "" THEN [path |-> writeFile(i.PrivkeyPEM), err |-> Nil]
    ELSE [path |-> "", err |-> ErrorsNew("missing idp private key")]

\* IdentityProvider.PubkeyFile
PubkeyFile(i) ==
    IF i.CertFile # "" THEN [path |-> i.CertFile, err |-> Nil]
    ELSE IF i.PubkeyPEM # "" THEN [path |-> writeFile(i.PubkeyPEM), err |-> Nil]
    ELSE [path |-> "", err |-> ErrorsNew("missing idp public key")]

\* os.Open fails
OpenError == [type |-> "PathError", msg |-> "open: permission denied"]

\* IdentityProvider.Cert: what it can return; a block it returns without
\* error is the one idp.pemCert holds from then on
CertReturns(i) ==
    IF ~i.pemCert.nil THEN {[cert |-> i.pemCert, err |-> Nil]}
    ELSE LET f == PubkeyFile(i)
         IN  IF f.err # Nil THEN {[cert |-> NilCert, err |-> f.err]}
             ELSE {[cert |-> [nil |-> FALSE, Bytes |-> f.path], err |-> Nil],
                   [cert |-> NilCert, err |-> OpenError]}

\* MakeAssertion: the attribute appended for one string field of the session
AttributeOf(value, friendlyName, name) ==
    IF value # ""
    THEN <<[FriendlyName |-> friendlyName, Name |-> name, Values |-> <<value>>]>>
    ELSE <<>>

\* MakeAssertion: the attribute appended for session.Groups
GroupsAttribute(groups) ==
    IF Len(groups) # 0
    THEN <<[FriendlyName |-> "eduPersonAffiliation",
            Name |-> "urn:oid:1.3.6.1.4.1.5923.1.1.1.1",
            Values |-> [k \in 1..Len(groups) |-> groups[k]]]>>
    ELSE <<>>

\* MakeAssertion with the second append for session.UserEmail missing and
\* the groups entry appended also when there are no groups
Attributes_OnePerField(s) ==
    AttributeOf(s.UserName, "uid", "urn:oid:0.9.2342.19200300.100.1.1")
    \o AttributeOf(s.UserEmail, "eduPersonPrincipalName", "urn:oid:1.3.6.1.4.1.5923.1.1.1.6")
    \o AttributeOf(s.UserSurname, "sn", "urn:oid:2.5.4.4")
    \o AttributeOf(s.UserGivenName, "givenName", "urn:oid:2.5.4.42")
    \o AttributeOf(s.UserCommonName, "cn", "urn:oid:2.5.4.3")
    \o AttributeOf(s.UserID, "MASTUsername", "userid")
    \o AttributeOf(s.UserFullname, "MASTName", "fullname")
    \o <<[FriendlyName |-> "eduPersonAffiliation",
          Name |-> "urn:oid:1.3.6.1.4.1.5923.1.1.1.1",
          Values |-> s.Groups]>>

\* MakeAssertion: the attributes slice, in the order of its appends
Attributes(s) ==
    AttributeOf(s.UserName, "uid", "urn:oid:0.9.2342.19200300.100.1.1")
    \o AttributeOf(s.UserEmail, "eduPersonPrincipalName", "urn:oid:1.3.6.1.4.1.5923.1.1.1.6")
    \o AttributeOf(s.UserSurname, "sn", "urn:oid:2.5.4.4")
    \o AttributeOf(s.UserGivenName, "givenName", "urn:oid:2.5.4.42")
    \o AttributeOf(s.UserCommonName, "cn", "urn:oid:2.5.4.3")
    \o AttributeOf(s.UserID, "MASTUsername", "userid")
    \o AttributeOf(s.UserEmail, "MASTEmail", "email")
    \o AttributeOf(s.UserFullname, "MASTName", "fullname")
    \o GroupsAttribute(s.Groups)

\* MakeAssertion: the loop over AssertionConsumerService; "" when it ends
\* without a return
RECURSIVE FirstPostLocation(_)
FirstPostLocation(acs) ==
    IF acs = <<>> THEN ""
    ELSE IF Head(acs).Binding = HTTPPostBinding THEN Head(acs).Location
    ELSE FirstPostLocation(Tail(acs))

\* MakeAssertion: the function literal that computes Recipient
Recipient(q) ==
    IF ~q.ACSEndpoint.nil THEN q.ACSEndpoint.Location
    ELSE IF ~q.ServiceProviderMetadata.nil /\ ~q.ServiceProviderMetadata.SPSSODescriptor.nil
    THEN FirstPostLocation(q.ServiceProviderMetadata.SPSSODescriptor.AssertionConsumerService)
    ELSE q.AssertionConsumerServiceURL

\* MakeAssertion: spNameQualifier
spNameQualifier(q) ==
    IF ~q.ServiceProviderMetadata.nil THEN q.ServiceProviderMetadata.EntityID ELSE ""

\* MakeAssertion: the AudienceRestriction of the conditions
AudienceRestriction(q) ==
    IF ~q.ServiceProviderMetadata.nil
    THEN [nil |-> FALSE, Audience |-> q.ServiceProviderMetadata.EntityID]
    ELSE [nil |-> TRUE]

\* MakeAssertion: the Assertion literal, for the identifier NewID returned and
\* the four readings of Now in t, in the order the literal takes them
AssertionOf(q, i, s, cert, id, t) ==
    [nil |-> FALSE,
     ID |-> id,
     IssueInstant |-> t[1],
     Issuer |-> i.MetadataURL,
     Signature |-> cert.Bytes,
     Subject |->
        [NameID |-> [NameQualifier |-> i.MetadataURL,
                     SPNameQualifier |-> spNameQualifier(q),
                     Value |-> s.NameID],
         SubjectConfirmation |->
            [SubjectConfirmationData |->
                [Address |-> q.Address,
                 InResponseTo |-> q.ID,
                 NotOnOrAfter |-> t[2] + IssueLifetime,
                 Recipient |-> Recipient(q)]]],
     Conditions |-> [NotBefore |-> t[3],
                     NotOnOrAfter |-> t[4] + IssueLifetime,
                     AudienceRestriction |-> AudienceRestriction(q)],
     AuthnStatement |-> [AuthnInstant |-> s.CreateTime, SessionIndex |-> s.Index],
     AttributeStatement |-> [Attributes |-> Attributes(s)]]

\* MakeResponse with the serialized assertion as the payload
ResponseOf_Plain(q, i, id, now) ==
    [nil |-> FALSE,
     Destination |-> q.Assertion.Subject.SubjectConfirmation.SubjectConfirmationData.Recipient,
     ID |-> id,
     InResponseTo |-> q.ID,
     IssueInstant |-> now,
     Issuer |-> i.MetadataURL,
     EncryptedAssertion |-> [EncryptedData |-> Bytes(xmlMarshal(q.Assertion))]]

\* MakeResponse with the identifier of the response as InResponseTo
ResponseOf_OwnID(q, i, id, now) ==
    [nil |-> FALSE,
     Destination |-> q.Assertion.Subject.SubjectConfirmation.SubjectConfirmationData.Recipient,
     ID |-> id,
     InResponseTo |-> id,
     IssueInstant |-> now,
     Issuer |-> i.MetadataURL,
     EncryptedAssertion |-> [EncryptedData |-> q.AssertionBuffer]]

\* MakeResponse: the Response literal
ResponseOf(q, i, id, now) ==
    [nil |-> FALSE,
     Destination |-> q.Assertion.Subject.SubjectConfirmation.SubjectConfirmationData.Recipient,
     ID |-> id,
     InResponseTo |-> q.ID,
     IssueInstant |-> now,
     Issuer |-> i.MetadataURL,
     EncryptedAssertion |-> [EncryptedData |-> q.AssertionBuffer]]

\* NewID: an identifier made from the state of the generator
NewID(n) == "id-" \o ToString(n)

\* a nil pointer is dereferenced
NilDereference == [type |-> "runtime.Error", msg |-> "invalid memory address or nil pointer dereference"]

\* the first KeyDescriptor with Use == "encryption"
RECURSIVE EncryptionCert(_)
EncryptionCert(keys) ==
    IF keys = <<>> THEN ""
    ELSE IF Head(keys).Use = "encryption" THEN Head(keys).Certificate
    ELSE EncryptionCert(Tail(keys))

\* the first KeyDescriptor with a certificate
RECURSIVE AnyCert(_)
AnyCert(keys) ==
    IF keys = <<>> THEN ""
    ELSE IF Head(keys).Certificate # "" THEN Head(keys).Certificate
    ELSE AnyCert(Tail(keys))

\* base64.StdEncoding.DecodeString, its error dropped: the bytes decoded
Base64Decode(text) ==
    IF HasPrefix(text, "b64:") THEN TrimPrefix(text, "b64:") ELSE ""

\* pem.EncodeToMemory(&pem.Block{Type: "CERTIFICATE", Bytes: b})
PemEncode(b) ==
    "-----BEGIN CERTIFICATE-----\n" \o b \o "\n-----END CERTIFICATE-----\n"

\* IdentityProvider.GetSPCertFile, after GetSPMetadata has returned meta
SPCertFile(meta) ==
    IF meta.SPSSODescriptor.nil
    THEN [path |-> "", err |-> ErrorsNew("missing sp sso descriptor")]
    ELSE LET keys == meta.SPSSODescriptor.KeyDescriptor
             enc == EncryptionCert(keys)
             cert == IF enc = "" THEN AnyCert(keys) ELSE enc
         IN  IF cert = ""
             THEN [path |-> "", err |-> ErrorsNew("missing sp cert")]
             ELSE [path |-> writeFile(PemEncode(Base64Decode(cert))), err |-> Nil]

\* the value MarshalAssertion assigns to req.IDP.SPMetadataURL
SPMetadataURLOf(q) ==
    IF q.Issuer # "" THEN q.Issuer
    ELSE IF ~q.ServiceProviderMetadata.nil THEN q.ServiceProviderMetadata.EntityID
    ELSE ""

\* MarshalAssertion with the `return err` of its two gates missing
Aborts_Never(err, opts) == FALSE

\* MarshalAssertion: if err != nil { if IsSecurityException(err, &opts) { return err } }
Aborts(err, opts) == err # Nil /\ IsSecurityException(err, opts)

\* bytes.TrimSpace(bytes.TrimPrefix(buf, []byte(`<?xml version="1.0"?>`)))
XmlDecl == "<?xml version=\"1.0\"?>"
TrimmedBuffer(buf) ==
    LET t == TrimSpace(TrimPrefix(buf.b, XmlDecl))
    IN  IF t = "" THEN NilBytes ELSE Bytes(t)

---------------------------------------------------------------------------
(* The environment of the identity provider: xmlsec1 and the web *)

\* the metadata documents the service providers publish
SP1URL == "https://sp1.example/metadata"
SP2URL == "https://sp2.example/metadata"
MetadataAt(url) ==
    IF url = SP1URL
    THEN Metadata(SP1URL, SPSSODescriptor(<<KeyDescriptor("signing", "b64:SIGN1"),
                                           KeyDescriptor("encryption", "b64:CERT1")>>,
                                         <<>>))
    ELSE IF url = SP2URL
    THEN Metadata(SP2URL, SPSSODescriptor(<<KeyDescriptor("signing", "b64:CERT2")>>, <<>>))
    ELSE Metadata(url, NilDescriptor)

\* the documents xmlsec1 writes to its stdout
SignedDoc(doc) == XmlDecl \o "\n<Signed>" \o doc \o "</Signed>\n"
EncryptedDoc(doc, certPath) ==
    XmlDecl \o "\n<Encrypted cert=\"" \o certPath \o "\">" \o doc \o "</Encrypted>\n"

\* runs of xmlsec1 on a document: the two streams and the exit status, for a
\* success, a failure of each kind with all or none of the result written,
\* a validity error reported with exit status zero, and a silent failure
Runs(full) ==
    {[res |-> full, resErr |-> "", waitErr |-> Nil],
     [res |-> full, resErr |-> "msg=self signed certificate\n", waitErr |-> ExitError],
     [res |-> "", resErr |-> "msg=unable to get local issuer certificate\n", waitErr |-> ExitError],
     [res |-> full, resErr |-> "validity error\n", waitErr |-> Nil],
     [res |-> "", resErr |-> "", waitErr |-> ExitError]}

SignRuns(doc) == Runs(SignedDoc(doc))
EncryptRuns(doc, certPath) == Runs(EncryptedDoc(doc, certPath))

\* what Sign can return: after cmd.Wait, or earlier with a process or IO error
SignReturns(doc) ==
    {SignReturn(x.res, x.resErr, x.waitErr) : x \in SignRuns(doc)}
        \cup {[out |-> NilBytes, err |-> StartError]}

\* what Encrypt can return
EncryptReturns(doc, certPath) ==
    {EncryptReturn(x.res, x.resErr, x.waitErr) : x \in EncryptRuns(doc, certPath)}
        \cup {[out |-> NilBytes, err |-> TempFileError]}

\* an IdentityProvider as it is configured, with nothing cached
IDPMetadataURL == "https://idp.example/metadata"
IdentityProvider(opts, k) ==
    [SecurityOpts |-> opts, MetadataURL |-> IDPMetadataURL,
     KeyFile |-> k.KeyFile, CertFile |-> k.CertFile,
     PrivkeyPEM |-> k.PrivkeyPEM, PubkeyPEM |-> k.PubkeyPEM,
     pemCert |-> NilCert, SPMetadataURL |-> "", SPMetadata |-> NilMetadata]

\* the key material an identity provider is configured with
NoKeys == [KeyFile |-> "", CertFile |-> "", PrivkeyPEM |-> "", PubkeyPEM |-> ""]
KeyConfigs ==
    {[KeyFile |-> "/etc/saml/idp.key", CertFile |-> "/etc/saml/idp.crt",
      PrivkeyPEM |-> "", PubkeyPEM |-> ""],
     [KeyFile |-> "", CertFile |-> "", PrivkeyPEM |-> "PEM", PubkeyPEM |-> "CERTPEM"],
     NoKeys}

\* an IdpAuthnRequest as it is received: id, issuer and url are Request.ID,
\* Request.Issuer.Value and Request.AssertionConsumerServiceURL
IdpAuthnRequest(id, issuer, url, meta, acs) ==
    [Address |-> "192.0.2.7", ID |-> id, Issuer |-> issuer,
     AssertionConsumerServiceURL |-> url,
     ServiceProviderMetadata |-> meta, ACSEndpoint |-> acs,
     Assertion |-> NilAssertion, AssertionBuffer |-> NilBytes,
     Response |-> NilResponse]

\* a Session: the user fields in f, the groups, and fixed other fields
UserFields ==
    {"UserName", "UserEmail", "UserSurname", "UserGivenName", "UserCommonName",
     "UserID", "UserFullname"}
Session(f, groups) ==
    [NameID |-> "name-id", Index |-> "index-1", CreateTime |-> 0, Groups |-> groups,
     UserID |-> f["UserID"], UserFullname |-> f["UserFullname"],
     UserName |-> f["UserName"], UserEmail |-> f["UserEmail"],
     UserCommonName |-> f["UserCommonName"], UserSurname |-> f["UserSurname"],
     UserGivenName |-> f["UserGivenName"]]
NoSession == Session([u \in UserFields |-> ""], <<>>)

\* the identity provider variables while another specification runs
IdpIdle ==
    /\ idp = IdentityProvider([AllowSelfSignedCert |-> FALSE, TrustUnknownAuthority |-> FALSE],
                              NoKeys)
    /\ req = [r \in Reqs |-> IdpAuthnRequest("", "", "", NilMetadata, NilEndpoint)]
    /\ session = [r \in Reqs |-> NoSession]
    /\ aRet = [r \in Reqs |-> NoReturn.err]
    /\ rPc = [r \in Reqs |-> "idle"]
    /\ rRet = [r \in Reqs |-> NoReturn.err]
    /\ clock = 0
    /\ clockStep = 0
    /\ nextID = 1
    /\ mPc = [r \in Reqs |-> "idle"]
    /\ mBuf = [r \in Reqs |-> NilBytes]
    /\ mCert = [r \in Reqs |-> ""]
    /\ mSign = [r \in Reqs |-> NoReturn]
    /\ mEnc = [r \in Reqs |-> NoReturn]
    /\ mRet = [r \in Reqs |-> NoReturn.err]
    /\ mCalls = [r \in Reqs |-> <<>>]
    /\ mBefore = [r \in Reqs |-> NilBytes]
    /\ nCalls = 0

---------------------------------------------------------------------------
(* The gateway: one invocation and the child process it starts *)

OutChunks == {"OK", "<Assertion/>"}
ErrChunks == {"OK\n", "validity error\n", "msg=self signed certificate\n", "error\n"}

RECURSIVE SeqsUpTo(_, _)
SeqsUpTo(S, n) ==
    IF n = 0 THEN {<<>>}
    ELSE LET T == SeqsUpTo(S, n - 1) IN T \cup {Append(t, x) : t \in T, x \in S}

GatewayIdle ==
    /\ op = "sign"
    /\ pc = "idle"
    /\ inLeft = 0
    /\ stdinPipe = 0
    /\ stdinClosed = FALSE
    /\ stdoutPipe = <<>>
    /\ stderrPipe = <<>>
    /\ childPc = "none"
    /\ childOut = <<>>
    /\ childErr = <<>>
    /\ outOpen = FALSE
    /\ errOpen = FALSE
    /\ res = ""
    /\ resErr = ""
    /\ waitErr = Nil
    /\ waited = FALSE
    /\ ret = NoReturn
    /\ tmpFile = "none"
    /\ tmpName = ""
    /\ otherTemps = {}

\* ioutil.TempFile("/tmp", "xmlsec"): the names it can give a new file; it
\* opens with O_EXCL and tries another name when one exists
TempNames == {"/tmp/xmlsec1", "/tmp/xmlsec2"}
TempFileNames(existing) == TempNames \ existing

Init ==
    /\ ClassifyIdle
    /\ ArgsIdle
    /\ IdpIdle
    /\ op \in Ops
    /\ pc = IF op = "encrypt" THEN "template" ELSE "start"
    /\ inLeft \in 0..MaxIn
    /\ stdinPipe = 0
    /\ stdinClosed = FALSE
    /\ stdoutPipe = <<>>
    /\ stderrPipe = <<>>
    /\ childPc = "none"
    /\ childOut \in SeqsUpTo(OutChunks, MaxOut)
    /\ childErr \in SeqsUpTo(ErrChunks, MaxErr)
    /\ outOpen = FALSE
    /\ errOpen = FALSE
    /\ res = ""
    /\ resErr = ""
    /\ waitErr = Nil
    /\ waited = FALSE
    /\ ret = NoReturn
    /\ tmpFile = "none"
    /\ tmpName = ""
    /\ otherTemps \in IF op = "encrypt" THEN {{}, {"/tmp/xmlsec1"}} ELSE {{}}

\* a return statement with the defer os.Remove(fp.Name()) missing
ReturnWith_KeepsFile(r) ==
    /\ ret' = r
    /\ pc' = "done"
    /\ UNCHANGED <<tmpFile, tmpName, otherTemps>>

\* a return statement; the deferred os.Remove(fp.Name()) runs with it
ReturnWith(r) ==
    /\ ret' = r
    /\ pc' = "done"
    /\ tmpFile' = IF tmpFile = "exists" THEN "removed" ELSE tmpFile
    /\ UNCHANGED <<tmpName, otherTemps>>

\* Encrypt: ioutil.TempFile, xml.MarshalIndent, fp.Write, fp.Close
EncryptTemplate ==
    /\ pc = "template"
    /\ \/ /\ ReturnWith([out |-> NilBytes, err |-> TempFileError])
          /\ UNCHANGED <<op, inLeft, stdinPipe, stdinClosed, stdoutPipe, stderrPipe,
                         childPc, childOut, childErr, outOpen, errOpen, res, resErr,
                         waitErr, waited>>
       \/ /\ \E n \in TempFileNames(otherTemps) : tmpName' = n
          /\ tmpFile' = "removed"
          /\ ret' = [out |-> NilBytes, err |-> TempFileError]
          /\ pc' = "done"
          /\ UNCHANGED otherTemps
          /\ UNCHANGED <<op, inLeft, stdinPipe, stdinClosed, stdoutPipe, stderrPipe,
                         childPc, childOut, childErr, outOpen, errOpen, res, resErr,
                         waitErr, waited>>
       \/ /\ \E n \in TempFileNames(otherTemps) : tmpName' = n
          /\ tmpFile' = "exists"
          /\ pc' = "start"
          /\ UNCHANGED otherTemps
          /\ UNCHANGED <<op, inLeft, stdinPipe, stdinClosed, stdoutPipe, stderrPipe,
                         childPc, childOut, childErr, outOpen, errOpen, res, resErr,
                         waitErr, waited, ret>>
    /\ UNCHANGED notGateway

\* cmd.StdinPipe, cmd.StdoutPipe, cmd.StderrPipe, cmd.Start
Start ==
    /\ pc = "start"
    /\ \/ /\ \E e \in {PipeError, StartError} : ReturnWith([out |-> NilBytes, err |-> e])
          /\ UNCHANGED <<childPc, outOpen, errOpen>>
       \/ /\ childPc' = "run"
          /\ outOpen' = TRUE
          /\ errOpen' = TRUE
          /\ pc' = "write"
          /\ UNCHANGED <<ret, tmpFile, tmpName, otherTemps>>
    /\ UNCHANGED <<op, inLeft, stdinPipe, stdinClosed, stdoutPipe, stderrPipe,
                   childOut, childErr, res, resErr, waitErr, waited>>
    /\ UNCHANGED notGateway

\* stdin.Write(in): one more chunk enters the pipe when it has room
WriteChunk ==
    /\ pc = "write"
    /\ inLeft > 0
    /\ childPc # "exited"
    /\ stdinPipe < PipeCap
    /\ inLeft' = inLeft - 1
    /\ stdinPipe' = stdinPipe + 1
    /\ UNCHANGED <<op, pc, stdinClosed, stdoutPipe, stderrPipe, childPc, childOut,
                   childErr, outOpen, errOpen, res, resErr, waitErr, waited, ret,
                   tmpFile, tmpName, otherTemps>>
    /\ UNCHANGED notGateway

\* stdin.Write(in) fails: the reader is gone; `return nil, err`
WriteFail ==
    /\ pc = "write"
    /\ inLeft > 0
    /\ childPc = "exited"
    /\ ReturnWith([out |-> NilBytes, err |-> EPIPE])
    /\ UNCHANGED <<op, inLeft, stdinPipe, stdinClosed, stdoutPipe, stderrPipe,
                   childPc, childOut, childErr, outOpen, errOpen, res, resErr,
                   waitErr, waited>>
    /\ UNCHANGED notGateway

\* stdin.Write(in) has returned; stdin.Close()
CloseStdin ==
    /\ pc = "write"
    /\ inLeft = 0
    /\ stdinClosed' = TRUE
    /\ pc' = "readOut"
    /\ UNCHANGED <<op, inLeft, stdinPipe, stdoutPipe, stderrPipe, childPc, childOut,
                   childErr, outOpen, errOpen, res, resErr, waitErr, waited, ret,
                   tmpFile, tmpName, otherTemps>>
    /\ UNCHANGED notGateway

\* ioutil.ReadAll(outbr): takes what the pipe holds, returns at end of file
ReadOut ==
    /\ pc = "readOut"
    /\ \/ /\ stdoutPipe # <<>>
          /\ res' = res \o Head(stdoutPipe)
          /\ stdoutPipe' = Tail(stdoutPipe)
          /\ pc' = pc
       \/ /\ stdoutPipe = <<>>
          /\ ~outOpen
          /\ pc' = "readErr"
          /\ UNCHANGED <<res, stdoutPipe>>
    /\ UNCHANGED <<op, inLeft, stdinPipe, stdinClosed, stderrPipe, childPc, childOut,
                   childErr, outOpen, errOpen, resErr, waitErr, waited, ret, tmpFile, tmpName, otherTemps>>
    /\ UNCHANGED notGateway

\* ioutil.ReadAll(errbr)
ReadErr ==
    /\ pc = "readErr"
    /\ \/ /\ stderrPipe # <<>>
          /\ resErr' = resErr \o Head(stderrPipe)
          /\ stderrPipe' = Tail(stderrPipe)
          /\ pc' = pc
       \/ /\ stderrPipe = <<>>
          /\ ~errOpen
          /\ pc' = "wait"
          /\ UNCHANGED <<resErr, stderrPipe>>
    /\ UNCHANGED <<op, inLeft, stdinPipe, stdinClosed, stdoutPipe, childPc, childOut,
                   childErr, outOpen, errOpen, res, waitErr, waited, ret, tmpFile, tmpName, otherTemps>>
    /\ UNCHANGED notGateway

\* cmd.Wait() and the return statements after it
Wait ==
    /\ pc = "wait"
    /\ childPc = "exited"
    /\ waited' = TRUE
    /\ ReturnWith(Return(op, res, resErr, waitErr))
    /\ UNCHANGED <<op, inLeft, stdinPipe, stdinClosed, stdoutPipe, stderrPipe,
                   childPc, childOut, childErr, outOpen, errOpen, res, resErr,
                   waitErr>>
    /\ UNCHANGED notGateway

ChildRunning == pc # "done" /\ childPc \notin {"none", "exited"}

\* the child reads its stdin: takes a chunk, sees end of file, or blocks
ChildRead ==
    /\ ChildRunning
    /\ \/ /\ childPc \in {"run", "blockedIn"}
          /\ stdinPipe > 0
          /\ stdinPipe' = stdinPipe - 1
          /\ childPc' = "run"
       \/ /\ childPc = "blockedIn"
          /\ stdinPipe = 0
          /\ stdinClosed
          /\ childPc' = "run"
          /\ UNCHANGED stdinPipe
       \/ /\ childPc = "run"
          /\ stdinPipe = 0
          /\ ~stdinClosed
          /\ childPc' = "blockedIn"
          /\ UNCHANGED stdinPipe
    /\ UNCHANGED <<op, pc, inLeft, stdinClosed, stdoutPipe, stderrPipe, childOut,
                   childErr, outOpen, errOpen, res, resErr, waitErr, waited, ret,
                   tmpFile, tmpName, otherTemps>>
    /\ UNCHANGED notGateway

\* the child writes to its stdout: the chunk enters the pipe, or the call blocks
ChildWriteOut ==
    /\ ChildRunning
    /\ childOut # <<>>
    /\ outOpen
    /\ \/ /\ childPc \in {"run", "blockedOut"}
          /\ Len(stdoutPipe) < PipeCap
          /\ stdoutPipe' = Append(stdoutPipe, Head(childOut))
          /\ childOut' = Tail(childOut)
          /\ childPc' = "run"
       \/ /\ childPc = "run"
          /\ Len(stdoutPipe) >= PipeCap
          /\ childPc' = "blockedOut"
          /\ UNCHANGED <<stdoutPipe, childOut>>
    /\ UNCHANGED <<op, pc, inLeft, stdinPipe, stdinClosed, stderrPipe, childErr,
                   outOpen, errOpen, res, resErr, waitErr, waited, ret, tmpFile, tmpName, otherTemps>>
    /\ UNCHANGED notGateway

\* the child writes to its stderr
ChildWriteErr ==
    /\ ChildRunning
    /\ childErr # <<>>
    /\ errOpen
    /\ \/ /\ childPc \in {"run", "blockedErr"}
          /\ Len(stderrPipe) < PipeCap
          /\ stderrPipe' = Append(stderrPipe, Head(childErr))
          /\ childErr' = Tail(childErr)
          /\ childPc' = "run"
       \/ /\ childPc = "run"
          /\ Len(stderrPipe) >= PipeCap
          /\ childPc' = "blockedErr"
          /\ UNCHANGED <<stderrPipe, childErr>>
    /\ UNCHANGED <<op, pc, inLeft, stdinPipe, stdinClosed, stdoutPipe, childOut,
                   outOpen, errOpen, res, resErr, waitErr, waited, ret, tmpFile, tmpName, otherTemps>>
    /\ UNCHANGED notGateway

\* the child closes one of its output streams once it has written it
ChildClose ==
    /\ ChildRunning
    /\ childPc = "run"
    /\ \/ /\ childOut = <<>>
          /\ outOpen
          /\ outOpen' = FALSE
          /\ UNCHANGED errOpen
       \/ /\ childErr = <<>>
          /\ errOpen
          /\ errOpen' = FALSE
          /\ UNCHANGED outOpen
    /\ UNCHANGED <<op, pc, inLeft, stdinPipe, stdinClosed, stdoutPipe, stderrPipe,
                   childPc, childOut, childErr, res, resErr, waitErr, waited, ret,
                   tmpFile, tmpName, otherTemps>>
    /\ UNCHANGED notGateway

\* the child exits, with status zero or not; its streams close
ChildExit ==
    /\ ChildRunning
    /\ childPc = "run"
    /\ childOut = <<>>
    /\ childErr = <<>>
    /\ childPc' = "exited"
    /\ outOpen' = FALSE
    /\ errOpen' = FALSE
    /\ waitErr' \in {Nil, ExitError}
    /\ UNCHANGED <<op, pc, inLeft, stdinPipe, stdinClosed, stdoutPipe, stderrPipe,
                   childOut, childErr, res, resErr, waited, ret, tmpFile, tmpName, otherTemps>>
    /\ UNCHANGED notGateway

Parent == EncryptTemplate \/ Start \/ WriteChunk \/ WriteFail \/ CloseStdin
              \/ ReadOut \/ ReadErr \/ Wait

Child == ChildRead \/ ChildWriteOut \/ ChildWriteErr \/ ChildClose \/ ChildExit

Next == Parent \/ Child

Spec == Init /\ [][Next]_vars

---------------------------------------------------------------------------
(* Classification specification: xmlsecErr and IsSecurityException applied *)
(* to every text built from the fragments below.                           *)

Frags == {"OK", "signature failed", "validity error",
          "msg=self signed certificate",
          "msg=unable to get local issuer certificate",
          " ", "\n", "validity", " error"}

RECURSIVE TextsUpTo(_)
TextsUpTo(n) ==
    IF n = 0 THEN {""}
    ELSE LET T == TextsUpTo(n - 1) IN T \cup {t \o f : t \in T, f \in Frags}

Texts == TextsUpTo(MaxFrags)

\* errors that reach the policy without passing through xmlsecErr
RawErrors == {ExitError, EPIPE, StartError}

ClassifyInit ==
    /\ GatewayIdle
    /\ ArgsIdle
    /\ IdpIdle
    /\ cPc = "input"
    /\ cIn \in Texts
    /\ cOpts \in SecurityOpts
    /\ cErr = Nil
    /\ cSec = FALSE

\* err := xmlsecErr(text)
Classify ==
    /\ cPc = "input"
    /\ cErr' = xmlsecErr(cIn)
    /\ cPc' = "classified"
    /\ UNCHANGED <<cIn, cOpts, cSec>>
    /\ UNCHANGED notClassify

\* the gateway returned a process or IO error instead
RaiseRaw ==
    /\ cPc = "input"
    /\ cErr' \in RawErrors
    /\ cPc' = "raw"
    /\ UNCHANGED <<cIn, cOpts, cSec>>
    /\ UNCHANGED notClassify

\* if err != nil { if IsSecurityException(err, &opts) { return err } }
Gate ==
    /\ cPc \in {"classified", "raw"}
    /\ cErr # Nil
    /\ cSec' = IsSecurityException(cErr, cOpts)
    /\ cPc' = IF cPc = "classified" THEN "gated" ELSE "gatedRaw"
    /\ UNCHANGED <<cIn, cOpts, cErr>>
    /\ UNCHANGED notClassify

ClassifyNext == Classify \/ RaiseRaw \/ Gate

SpecClassify == ClassifyInit /\ [][ClassifyNext]_vars

---------------------------------------------------------------------------
(* Argument specification: Sign and Verify build their argument list from  *)
(* every ValidationOptions value below, hostile strings included.          *)

DTDFiles == {"", "saml.dtd", "--enabled-reference-uris", "local"}
IDAttrNames == {"urn:example:Doc", "--enabled-reference-uris", "local"}
KeyPaths == {"/etc/saml/idp.pem", "--enabled-reference-uris"}

OptionValues ==
    {NilOptions} \cup
    {ValidationOptions(d, h, ids) :
        d \in DTDFiles, h \in BOOLEAN, ids \in SeqsUpTo(IDAttrNames, MaxIDAttrs)}

ArgsInit ==
    /\ ClassifyIdle
    /\ GatewayIdle
    /\ IdpIdle
    /\ aPc = "input"
    /\ aOp \in {"sign", "verify"}
    /\ aPath \in KeyPaths
    /\ aOpts \in OptionValues
    /\ args = <<>>

\* Sign, up to cmd := exec.Command(args[0], args[1:]...)
BuildSignArgs ==
    /\ aPc = "input"
    /\ aOp = "sign"
    /\ args' = SignArgs(aPath, aOpts)
    /\ aPc' = "built"
    /\ UNCHANGED <<aOp, aPath, aOpts>>
    /\ UNCHANGED notArgs

\* Verify, up to cmd := exec.Command(args[0], args[1:]...)
BuildVerifyArgs ==
    /\ aPc = "input"
    /\ aOp = "verify"
    /\ args' = VerifyArgs(aPath, aOpts)
    /\ aPc' = "built"
    /\ UNCHANGED <<aOp, aPath, aOpts>>
    /\ UNCHANGED notArgs

ArgsNext == BuildSignArgs \/ BuildVerifyArgs

SpecArgs == ArgsInit /\ [][ArgsNext]_vars

---------------------------------------------------------------------------
(* Issuance specification: MarshalAssertion on the requests of one         *)
(* identity provider, one statement group at a time.                       *)

HTTPError == [type |-> "url.Error", msg |-> "Get: connection refused"]

\* where service provider 1 consumes assertions
SP1ACS == "https://sp1.example/acs"

\* the session of the issuance runs
IdpSession ==
    Session([u \in UserFields |-> IF u = "UserName" THEN "alice" ELSE ""], <<>>)

\* what the steps of MarshalAssertion leave alone
notMarshal == <<session, aRet, rPc, rRet, clock, clockStep, nextID>>

\* the requests q of the identity provider i, with the session s resolved
\* for each and a clock that advances by at most step between readings:
\* as they are received or, if made, once MakeAssertion has run on each
IdpStart(i, q, s, step, made) ==
    /\ ClassifyIdle
    /\ GatewayIdle
    /\ ArgsIdle
    /\ session = [r \in Reqs |-> s]
    /\ clock = 0
    /\ clockStep = step
    /\ LET cert == [nil |-> FALSE, Bytes |-> PubkeyFile(i).path]
       IN  IF made /\ PubkeyFile(i).err = Nil
           THEN /\ idp = [i EXCEPT !.pemCert = cert]
                /\ req = [r \in Reqs |->
                            [q[r] EXCEPT !.Assertion =
                                AssertionOf(q[r], i, s, cert, NewID(r), <<0, 0, 0, 0>>)]]
                /\ nextID = 3
           ELSE /\ idp = i
                /\ req = q
                /\ nextID = 1
    /\ aRet = [r \in Reqs |-> NoReturn.err]
    /\ rPc = [r \in Reqs |-> "idle"]
    /\ rRet = [r \in Reqs |-> NoReturn.err]
    /\ mPc = [r \in Reqs |-> "idle"]
    /\ mBuf = [r \in Reqs |-> NilBytes]
    /\ mCert = [r \in Reqs |-> ""]
    /\ mSign = [r \in Reqs |-> NoReturn]
    /\ mEnc = [r \in Reqs |-> NoReturn]
    /\ mRet = [r \in Reqs |-> NoReturn.err]
    /\ mCalls = [r \in Reqs |-> <<>>]
    /\ mBefore = [r \in Reqs |-> NilBytes]
    /\ nCalls = 0

\* two requests, of two service providers, with their assertions made
IdpInit ==
    \E o \in SecurityOpts, k \in KeyConfigs,
       sp2 \in {<<SP2URL, NilMetadata>>, <<"", Metadata(SP2URL, NilDescriptor)>>,
                <<"", NilMetadata>>} :
       IdpStart(IdentityProvider(o, k),
                [r \in Reqs |->
                    IF r = 1
                    THEN IdpAuthnRequest("req-1", SP1URL, SP1ACS, NilMetadata, NilEndpoint)
                    ELSE IdpAuthnRequest("req-2", sp2[1], "", sp2[2], NilEndpoint)],
                IdpSession, 0, TRUE)

\* MarshalAssertion records err and tries the failed operation again
MarshalReturn_Retries(r, err) ==
    /\ mRet' = [mRet EXCEPT ![r] = err]
    /\ UNCHANGED mPc

\* MarshalAssertion returns err
MarshalReturn(r, err) ==
    /\ mRet' = [mRet EXCEPT ![r] = err]
    /\ mPc' = [mPc EXCEPT ![r] = "idle"]

\* MarshalAssertion: xml.Marshal, PrivkeyFile, xmlsec.Sign and its gate
MarshalBegin(r) ==
    /\ mPc[r] = "idle"
    /\ rPc[r] = "idle"
    /\ nCalls < MaxCalls
    /\ nCalls' = nCalls + 1
    /\ mBefore' = [mBefore EXCEPT ![r] = req[r].AssertionBuffer]
    /\ mEnc' = [mEnc EXCEPT ![r] = NoReturn]
    /\ mCert' = [mCert EXCEPT ![r] = ""]
    /\ LET doc == xmlMarshal(req[r].Assertion)
           key == PrivkeyFile(idp)
       IN  IF key.err # Nil
           THEN /\ MarshalReturn(r, key.err)
                /\ mSign' = [mSign EXCEPT ![r] = NoReturn]
                /\ mCalls' = [mCalls EXCEPT ![r] = <<>>]
                /\ mBuf' = [mBuf EXCEPT ![r] = Bytes(doc)]
           ELSE \E s \in SignReturns(doc) :
                /\ mSign' = [mSign EXCEPT ![r] = s]
                /\ mCalls' = [mCalls EXCEPT ![r] =
                                <<[fn |-> "Sign", in |-> doc, path |-> key.path]>>]
                /\ mBuf' = [mBuf EXCEPT ![r] = s.out]
                /\ IF Aborts(s.err, idp.SecurityOpts)
                   THEN MarshalReturn(r, s.err)
                   ELSE /\ mPc' = [mPc EXCEPT ![r] = "signed"]
                        /\ mRet' = [mRet EXCEPT ![r] = NoReturn.err]
    /\ UNCHANGED <<idp, req, session, aRet, rRet, clock, clockStep, nextID>>
    /\ UNCHANGED notIdp

\* MarshalAssertion, called on the request directly
MarshalSign(r) ==
    /\ MarshalBegin(r)
    /\ UNCHANGED rPc

\* MarshalAssertion: req.IDP.SPMetadataURL = ...
MarshalSetURL(r) ==
    /\ mPc[r] = "signed"
    /\ idp' = [idp EXCEPT !.SPMetadataURL = SPMetadataURLOf(req[r])]
    /\ mPc' = [mPc EXCEPT ![r] = "urlSet"]
    /\ UNCHANGED <<req, mBuf, mCert, mSign, mEnc, mRet, mCalls, mBefore, nCalls>>
    /\ UNCHANGED notMarshal
    /\ UNCHANGED notIdp

\* GetSPCertFile, once GetSPMetadata has returned meta
MarshalCert(r, meta) ==
    LET c == SPCertFile(meta)
    IN  IF c.err # Nil
        THEN /\ MarshalReturn(r, c.err)
             /\ UNCHANGED mCert
        ELSE /\ mCert' = [mCert EXCEPT ![r] = c.path]
             /\ mPc' = [mPc EXCEPT ![r] = "certReady"]
             /\ UNCHANGED mRet

\* MarshalAssertion: req.IDP.GetSPCertFile(), with GetSPMetadata
MarshalGetCert(r) ==
    /\ mPc[r] = "urlSet"
    /\ IF ~idp.SPMetadata.nil
       THEN /\ MarshalCert(r, idp.SPMetadata)
            /\ UNCHANGED idp
       ELSE IF idp.SPMetadataURL = ""
       THEN /\ MarshalReturn(r, ErrorsNew("missing sp metadata url"))
            /\ UNCHANGED <<idp, mCert>>
       ELSE \/ /\ MarshalReturn(r, HTTPError)
               /\ UNCHANGED <<idp, mCert>>
            \/ /\ idp' = [idp EXCEPT !.SPMetadata = MetadataAt(idp.SPMetadataURL)]
               /\ MarshalCert(r, MetadataAt(idp.SPMetadataURL))
    /\ UNCHANGED <<req, mBuf, mSign, mEnc, mCalls, mBefore, nCalls>>
    /\ UNCHANGED notMarshal
    /\ UNCHANGED notIdp

\* MarshalAssertion: xmlsec.Encrypt, its gate, and req.AssertionBuffer = ...
MarshalEncrypt(r) ==
    /\ mPc[r] = "certReady"
    /\ \E e \in EncryptReturns(mBuf[r].b, mCert[r]) :
          /\ mEnc' = [mEnc EXCEPT ![r] = e]
          /\ mCalls' = [mCalls EXCEPT ![r] =
                          Append(@, [fn |-> "Encrypt", in |-> mBuf[r].b, path |-> mCert[r]])]
          /\ mBuf' = [mBuf EXCEPT ![r] = e.out]
          /\ IF Aborts(e.err, idp.SecurityOpts)
             THEN /\ MarshalReturn(r, e.err)
                  /\ UNCHANGED req
             ELSE /\ req' = [req EXCEPT ![r].AssertionBuffer = TrimmedBuffer(e.out)]
                  /\ MarshalReturn(r, Nil)
    /\ UNCHANGED <<idp, mCert, mSign, mBefore, nCalls>>
    /\ UNCHANGED notMarshal
    /\ UNCHANGED notIdp

\* what MakeAssertion and the statements of MakeResponse leave alone
marshalVars == <<mPc, mBuf, mCert, mSign, mEnc, mRet, mCalls, mBefore>>

\* the sum of the first k entries of d
RECURSIVE SumTo(_, _)
SumTo(d, k) == IF k = 0 THEN 0 ELSE d[k] + SumTo(d, k - 1)

\* n successive readings of Now, the source advancing by d[k] before reading k
Readings(d, n) == [k \in 1..n |-> clock + SumTo(d, k)]

\* MakeAssertion(session[r]): Cert, the attributes, Metadata, and the
\* assignment of req.Assertion
MakeAssertion(r) ==
    /\ mPc[r] = "idle"
    /\ rPc[r] = "idle"
    /\ nCalls < MaxCalls
    /\ nCalls' = nCalls + 1
    /\ \E c \in CertReturns(idp) :
          IF c.err # Nil
          THEN /\ aRet' = [aRet EXCEPT ![r] = c.err]
               /\ UNCHANGED <<idp, req, clock, nextID>>
          ELSE \E d \in [1..4 -> 0..clockStep] :
               LET t == Readings(d, 4)
               IN  /\ idp' = [idp EXCEPT !.pemCert = c.cert]
                   /\ req' = [req EXCEPT ![r].Assertion =
                                 AssertionOf(req[r], idp, session[r], c.cert,
                                             NewID(nextID), t)]
                   /\ nextID' = nextID + 1
                   /\ clock' = t[4]
                   /\ aRet' = [aRet EXCEPT ![r] = Nil]
    /\ UNCHANGED <<session, rPc, rRet, clockStep>>
    /\ UNCHANGED marshalVars
    /\ UNCHANGED notIdp

\* MakeResponse from req.Response = &Response{...} on
ResponseAssemble(r) ==
    IF req[r].Assertion.nil
    THEN /\ rRet' = [rRet EXCEPT ![r] = NilDereference]
         /\ UNCHANGED <<req, clock, nextID>>
    ELSE \E d \in [1..1 -> 0..clockStep] :
         LET resp == ResponseOf(req[r], idp, NewID(nextID), Readings(d, 1)[1])
         IN  /\ req' = [req EXCEPT ![r].Response = resp]
             /\ nextID' = nextID + 1
             /\ clock' = resp.IssueInstant
             /\ rRet' = [rRet EXCEPT ![r] =
                            IF resp.Destination = ""
                            THEN ErrorsNew("missing response destination")
                            ELSE Nil]

\* MakeResponse when req.AssertionBuffer is not nil
MakeResponse(r) ==
    /\ mPc[r] = "idle"
    /\ rPc[r] = "idle"
    /\ nCalls < MaxCalls
    /\ nCalls' = nCalls + 1
    /\ ~req[r].AssertionBuffer.nil
    /\ ResponseAssemble(r)
    /\ UNCHANGED <<idp, session, aRet, rPc, clockStep>>
    /\ UNCHANGED marshalVars
    /\ UNCHANGED notIdp

\* MakeResponse when req.AssertionBuffer is nil: it calls MarshalAssertion
MakeResponseMarshal(r) ==
    /\ req[r].AssertionBuffer.nil
    /\ MarshalBegin(r)
    /\ rPc' = [rPc EXCEPT ![r] = "marshal"]

\* MakeResponse once the MarshalAssertion it called has returned
MakeResponseReturn(r) ==
    /\ rPc[r] = "marshal"
    /\ mPc[r] = "idle"
    /\ rPc' = [rPc EXCEPT ![r] = "idle"]
    /\ IF mRet[r] # Nil
       THEN /\ rRet' = [rRet EXCEPT ![r] = mRet[r]]
            /\ UNCHANGED <<req, clock, nextID>>
       ELSE ResponseAssemble(r)
    /\ UNCHANGED <<idp, session, aRet, clockStep, nCalls>>
    /\ UNCHANGED marshalVars
    /\ UNCHANGED notIdp

IdpNext ==
    \E r \in Reqs :
        MarshalSign(r) \/ MarshalSetURL(r) \/ MarshalGetCert(r) \/ MarshalEncrypt(r)

SpecIdp == IdpInit /\ [][IdpNext]_vars

---------------------------------------------------------------------------
(* Sequential issuance specification: MarshalAssertion on the requests of  *)
(* one identity provider, each call returning before the next is made.     *)

SeqNext ==
    \E r \in Reqs :
        /\ \A o \in Reqs \ {r} : mPc[o] = "idle"
        /\ (MarshalSign(r) \/ MarshalSetURL(r) \/ MarshalGetCert(r) \/ MarshalEncrypt(r))

SpecSeq == IdpInit /\ [][SeqNext]_vars

---------------------------------------------------------------------------
(* Response specification: MakeAssertion, MarshalAssertion and             *)
(* MakeResponse called one after another, in any order, on one request.    *)

\* the request the calls are made on
Issued == 1

IssueInit ==
    \E o \in SecurityOpts, k \in KeyConfigs, url \in {SP1ACS, ""}, made \in BOOLEAN :
       IdpStart(IdentityProvider(o, k),
                [r \in Reqs |->
                    IF r = Issued
                    THEN IdpAuthnRequest("req-1", SP1URL, url, NilMetadata, NilEndpoint)
                    ELSE IdpAuthnRequest("req-2", SP2URL, "", NilMetadata, NilEndpoint)],
                IdpSession, 0, made)

IssueNext ==
    \/ MakeAssertion(Issued)
    \/ MarshalSign(Issued) \/ MarshalSetURL(Issued)
    \/ MarshalGetCert(Issued) \/ MarshalEncrypt(Issued)
    \/ MakeResponse(Issued) \/ MakeResponseMarshal(Issued) \/ MakeResponseReturn(Issued)

SpecIssue == IssueInit /\ [][IssueNext]_vars

---------------------------------------------------------------------------
(* Assertion specification: MakeAssertion on one request, for the request  *)
(* contexts, the sessions and the clocks it can be given.                  *)

\* the endpoints a service provider's metadata can list
Endpoints ==
    {IndexedEndpoint(HTTPPostBinding, "https://sp1.example/post"),
     IndexedEndpoint(HTTPRedirectBinding, "https://sp1.example/redirect"),
     IndexedEndpoint(HTTPPostBinding, "https://sp1.example/post2")}

\* the metadata a request can carry
RequestMetadata ==
    {NilMetadata, Metadata(SP1URL, NilDescriptor)}
        \cup {Metadata(SP1URL, SPSSODescriptor(<<>>, acs)) :
                acs \in SeqsUpTo(Endpoints, MaxEndpoints)}

\* the request contexts
Requests ==
    {IdpAuthnRequest("req-1", SP1URL, url, meta, acs) :
        url \in {SP1ACS, ""},
        meta \in RequestMetadata,
        acs \in {NilEndpoint, IndexedEndpoint(HTTPPostBinding, "https://sp1.example/explicit")}}

\* the sessions: every user field empty or not, and the groups
Groups == {"staff", "admin"}
Sessions ==
    {Session([u \in UserFields |-> IF u \in set THEN "v-" \o u ELSE ""], groups) :
        set \in SUBSET UserFields, groups \in SeqsUpTo(Groups, MaxGroups)}

\* what MakeAssertion is given: each of the request context, the session and
\* the clock varied in turn
AssertInputs ==
    {[q |-> q, s |-> IdpSession, step |-> 0] : q \in Requests}
        \cup {[q |-> IdpAuthnRequest("req-1", SP1URL, SP1ACS, NilMetadata, NilEndpoint),
               s |-> s, step |-> 0] : s \in Sessions}
        \cup {[q |-> IdpAuthnRequest("req-1", SP1URL, SP1ACS, NilMetadata, NilEndpoint),
               s |-> IdpSession, step |-> step] : step \in 1..MaxTick}

AssertInit ==
    \E x \in AssertInputs, k \in KeyConfigs :
       IdpStart(IdentityProvider([AllowSelfSignedCert |-> FALSE,
                                  TrustUnknownAuthority |-> FALSE], k),
                [r \in Reqs |-> x.q], x.s, x.step, FALSE)

AssertNext == MakeAssertion(Issued)

SpecAssert == AssertInit /\ [][AssertNext]_vars

---------------------------------------------------------------------------
(* Properties of the gateway invocation (Spec) *)

\* the invocation has not returned and neither it nor its child can take a step
Hung == pc # "done" /\ ~ENABLED Next

\* C1: a gateway invocation never hangs while it writes its input, whatever
\* the size of the input and whatever the child writes meanwhile.
C1_NeverHangsWritingInput == ~(pc = "write" /\ Hung)

\* C2: the result and diagnostic streams are drained independently: the
\* invocation never hangs in one of the two reads while the child is blocked
\* writing the other stream.
C2_StreamsDrainedIndependently == ~(pc \in {"readOut", "readErr"} /\ Hung)

\* C4: Sign and Verify return a non-nil error whenever the diagnostic stream
\* contains "validity error", whatever the result stream and the exit status.
C4_ValidityErrorFails ==
    (pc = "done" /\ waited /\ op \in {"sign", "verify"}
        /\ Contains(resErr, "validity error"))
    => ret.err # Nil

\* the error types xmlsecErr produces
ClassifiedTypes == {"errorString", "ErrValidityError", "ErrSelfSignedCertificate",
                    "ErrUnknownIssuer"}

\* C5: every failing invocation returns an error: the classified error when
\* the diagnostic stream is non-empty, the raw process or IO error otherwise;
\* a failure before cmd.Wait is returned as it is.
C5_FailureReturnsError ==
    /\ (pc = "done" /\ ~waited) => ret.err \in {TempFileError, PipeError, StartError, EPIPE}
    /\ (pc = "done" /\ waited /\ waitErr # Nil) =>
          IF Len(resErr) > 0
          THEN ret.err.type \in ClassifiedTypes
          ELSE ret.err = waitErr

---------------------------------------------------------------------------
(* Properties of the argument list (SpecArgs) *)

\* the values that xmlsec1 reads as parameters of --enabled-reference-uris:
\* after the command word every option takes the next argument as its value
RECURSIVE EnabledReferenceURIs(_, _)
EnabledReferenceURIs(a, i) ==
    IF i >= Len(a) \/ ~HasPrefix(a[i], "--") THEN <<>>
    ELSE (IF a[i] = "--enabled-reference-uris" THEN <<a[i + 1]>> ELSE <<>>)
            \o EnabledReferenceURIs(a, i + 2)

\* C3: for Sign and Verify and every ValidationOptions value, the argument
\* list enables reference URIs exactly once, as "empty,same-doc".
C3_ReferenceURIsRestricted ==
    aPc = "built" => EnabledReferenceURIs(args, 3) = <<"empty,same-doc">>

\* C3 witness: options made of hostile strings went through applyOptions
C3_Witness ==
    /\ aPc = "built"
    /\ ~aOpts.nil
    /\ aOpts.DTDFile = "--enabled-reference-uris"
    /\ aOpts.EnableIDAttrHack
    /\ aOpts.IDAttrs = <<"--enabled-reference-uris", "local">>
    /\ Len(args) > 12

---------------------------------------------------------------------------
(* Properties of classification and of the exception policy (SpecClassify) *)

\* the order of section 4.2, read on the text itself
FirstMatch(s) ==
    IF HasPrefix(s, "OK") THEN "nil"
    ELSE IF Contains(s, "signature failed") THEN "errorString"
    ELSE IF Contains(s, "validity error") THEN "ErrValidityError"
    ELSE IF Contains(s, "msg=self signed certificate") THEN "ErrSelfSignedCertificate"
    ELSE IF Contains(s, "msg=unable to get local issuer certificate") THEN "ErrUnknownIssuer"
    ELSE "errorString"

\* C6: classification is first-match-wins in the order OK prefix, signature
\* failed, validity error, self-signed, unknown issuer, generic.
C6_FirstMatchWins ==
    cPc \in {"classified", "gated"} => cErr.type = FirstMatch(cIn)

\* C6 witness: a text with two markers took the kind of the earlier rule
C6_Witness ==
    /\ cPc = "classified"
    /\ cIn = "validity errorsignature failed"
    /\ cErr.type = "errorString"

\* C7: every text containing "signature failed" is classified as the
\* signature-failure error, and that error is never waived.
C7_SignatureFailedAborts ==
    (cPc \in {"classified", "gated"} /\ Contains(cIn, "signature failed"))
    => /\ cErr.type = "errorString"
       /\ cPc = "gated" => cSec

\* C8: every text containing "validity error" is classified ErrValidityError.
C8_ValidityErrorKind ==
    (cPc \in {"classified", "gated"} /\ Contains(cIn, "validity error"))
    => cErr.type = "ErrValidityError"

\* C9: an error is waived exactly when it is the self-signed kind and
\* AllowSelfSignedCert is set, or the unknown-issuer kind and
\* TrustUnknownAuthority is set.
C9_WaiverIffKindAndFlag ==
    cPc \in {"gated", "gatedRaw"} =>
        (~cSec <=> \/ cErr.type = "ErrSelfSignedCertificate" /\ cOpts.AllowSelfSignedCert
                   \/ cErr.type = "ErrUnknownIssuer" /\ cOpts.TrustUnknownAuthority)

\* C9 witness: an unknown-issuer error met the self-signed waiver alone
C9_Witness ==
    /\ cPc = "gated"
    /\ cErr.type = "ErrUnknownIssuer"
    /\ cOpts.AllowSelfSignedCert
    /\ ~cOpts.TrustUnknownAuthority
    /\ cSec

---------------------------------------------------------------------------
(* Properties of the issuance pipeline (SpecIdp) *)

\* the gateway returned an error to MarshalAssertion of r and the policy
\* does not waive it
NotWaived(g) == g # NoReturn /\ g.err # Nil /\ IsSecurityException(g.err, idp.SecurityOpts)
\* the gateway returned an error and the policy waives it
Waived(g) == g # NoReturn /\ g.err # Nil /\ ~IsSecurityException(g.err, idp.SecurityOpts)

\* C10: in MarshalAssertion a non-waived error of Sign or Encrypt is returned,
\* no later gateway call is made and AssertionBuffer keeps its value; a
\* waived error is swallowed and the bytes the gateway returned are used.
C10_WaivedContinuesElseAborts ==
    \A r \in Reqs :
        /\ NotWaived(mSign[r]) =>
              /\ mPc[r] = "idle"
              /\ mRet[r] = mSign[r].err
              /\ Len(mCalls[r]) = 1
              /\ req[r].AssertionBuffer = mBefore[r]
        /\ Waived(mSign[r]) =>
              /\ mRet[r] # mSign[r].err
              /\ Len(mCalls[r]) = 2 => mCalls[r][2].in = mSign[r].out.b
        /\ NotWaived(mEnc[r]) =>
              /\ mPc[r] = "idle"
              /\ mRet[r] = mEnc[r].err
              /\ req[r].AssertionBuffer = mBefore[r]
        /\ Waived(mEnc[r]) =>
              /\ mPc[r] = "idle"
              /\ mRet[r] = Nil
              /\ req[r].AssertionBuffer = TrimmedBuffer(mEnc[r].out)

\* C10 witness: a waived signing error was followed by an encryption of the
\* bytes Sign returned, and the encryption failed with a non-waived error
C10_Witness ==
    \E r \in Reqs :
        /\ Waived(mSign[r])
        /\ Len(mCalls[r]) = 2
        /\ mCalls[r][2].fn = "Encrypt"
        /\ NotWaived(mEnc[r])
        /\ mRet[r] = mEnc[r].err

---------------------------------------------------------------------------
(* Properties of MakeAssertion (SpecAssert) *)

\* the metadata of q lists an endpoint with the POST binding
HasPostEndpoint(q) ==
    /\ ~q.ServiceProviderMetadata.nil
    /\ ~q.ServiceProviderMetadata.SPSSODescriptor.nil
    /\ \E k \in DOMAIN q.ServiceProviderMetadata.SPSSODescriptor.AssertionConsumerService :
          q.ServiceProviderMetadata.SPSSODescriptor.AssertionConsumerService[k].Binding
              = HTTPPostBinding

\* the recipient the three rules name, each applying when those before it
\* yield nothing
RuledRecipient(q) ==
    IF ~q.ACSEndpoint.nil THEN q.ACSEndpoint.Location
    ELSE IF HasPostEndpoint(q)
    THEN LET acs == q.ServiceProviderMetadata.SPSSODescriptor.AssertionConsumerService
             first == CHOOSE k \in DOMAIN acs :
                         /\ acs[k].Binding = HTTPPostBinding
                         /\ \A j \in 1..(k - 1) : acs[j].Binding # HTTPPostBinding
         IN  acs[first].Location
    ELSE q.AssertionConsumerServiceURL

\* the subject-confirmation data of the assertion of request r
ConfirmationData(r) ==
    req[r].Assertion.Subject.SubjectConfirmation.SubjectConfirmationData

\* C11: the Recipient of an assertion is the explicit endpoint's location,
\* else the location of the first POST-binding endpoint of the metadata,
\* else the URL the request declares, also when metadata is present but
\* lists no POST-binding endpoint.
C11_RecipientPrecedence ==
    \A r \in Reqs :
        ~req[r].Assertion.nil => ConfirmationData(r).Recipient = RuledRecipient(req[r])

\* C17: both expiries of an assertion are its IssueInstant plus
\* IssueLifetime, whatever the clock does between its readings.
C17_ExpiryIsIssuePlusLifetime ==
    \A r \in Reqs :
        ~req[r].Assertion.nil =>
            /\ ConfirmationData(r).NotOnOrAfter
                  = req[r].Assertion.IssueInstant + IssueLifetime
            /\ req[r].Assertion.Conditions.NotOnOrAfter
                  = req[r].Assertion.IssueInstant + IssueLifetime

\* the user fields of a session that are not empty
NonEmptyFields(s) ==
    {u \in UserFields :
        [UserName |-> s.UserName, UserEmail |-> s.UserEmail,
         UserSurname |-> s.UserSurname, UserGivenName |-> s.UserGivenName,
         UserCommonName |-> s.UserCommonName, UserID |-> s.UserID,
         UserFullname |-> s.UserFullname][u] # ""}

\* the attributes of the assertion of request r
AttributesOf(r) == req[r].Assertion.AttributeStatement.Attributes

\* the entries of the attributes of r with one of the friendly names
Entries(r, friendlyNames) ==
    {k \in DOMAIN AttributesOf(r) : AttributesOf(r)[k].FriendlyName \in friendlyNames}

\* C18 as stated: the attribute statement has exactly one entry per
\* non-empty user field of the session, and one more if there are groups.
C18_OneEntryPerField ==
    \A r \in Reqs :
        ~req[r].Assertion.nil =>
            Len(AttributesOf(r)) =
                Cardinality(NonEmptyFields(session[r]))
                    + (IF Len(session[r].Groups) # 0 THEN 1 ELSE 0)

\* the friendly names under which each user field is emitted
FriendlyNames ==
    [UserName |-> {"uid"},
     UserEmail |-> {"eduPersonPrincipalName", "MASTEmail"},
     UserSurname |-> {"sn"},
     UserGivenName |-> {"givenName"},
     UserCommonName |-> {"cn"},
     UserID |-> {"MASTUsername"},
     UserFullname |-> {"MASTName"}]

\* C18, amended: every non-empty user field has exactly one entry, carrying
\* its value alone, under each of its friendly names, which are two for
\* UserEmail and one for every other field; an empty field has none;
\* non-empty Groups have exactly one entry, with one value per group in
\* order; and the statement has no other entry.
C18_EntriesPerField ==
    \A r \in Reqs :
        ~req[r].Assertion.nil =>
            LET s == session[r]
                value == [UserName |-> s.UserName, UserEmail |-> s.UserEmail,
                          UserSurname |-> s.UserSurname, UserGivenName |-> s.UserGivenName,
                          UserCommonName |-> s.UserCommonName, UserID |-> s.UserID,
                          UserFullname |-> s.UserFullname]
                groupEntries == Entries(r, {"eduPersonAffiliation"})
            IN  /\ \A u \in UserFields :
                      \A n \in FriendlyNames[u] :
                          /\ Cardinality(Entries(r, {n})) = IF value[u] # "" THEN 1 ELSE 0
                          /\ \A k \in Entries(r, {n}) :
                                AttributesOf(r)[k].Values = <<value[u]>>
                /\ Cardinality(groupEntries) = IF Len(s.Groups) # 0 THEN 1 ELSE 0
                /\ \A k \in groupEntries : AttributesOf(r)[k].Values = s.Groups
                /\ Len(AttributesOf(r)) =
                      Cardinality(groupEntries)
                        + Cardinality(Entries(r, UNION {FriendlyNames[u] : u \in UserFields}))

\* C18 witness: an assertion made for a session with an email address, a
\* user name, no surname and two groups
C18_Witness ==
    \E r \in Reqs :
        /\ ~req[r].Assertion.nil
        /\ session[r].UserEmail # ""
        /\ session[r].UserName # ""
        /\ session[r].UserSurname = ""
        /\ Len(session[r].Groups) = 2
        /\ Cardinality(Entries(r, {"eduPersonPrincipalName", "MASTEmail"})) = 2

---------------------------------------------------------------------------
(* Properties of the calls on one request (SpecIssue) *)

\* the certificate file of the service provider that sent request q
OwnCertFile(q) == SPCertFile(MetadataAt(SPMetadataURLOf(q))).path

\* the payload of the response of request r
Payload(r) == req[r].Response.EncryptedAssertion.EncryptedData

\* C12 as stated: the payload of a Response is what a Sign that succeeded
\* and then an Encrypt that succeeded produce from the request's assertion.
C12_PayloadOfSuccessfulSignAndEncrypt ==
    \A r \in Reqs :
        ~req[r].Response.nil =>
            Payload(r) = TrimmedBuffer(Bytes(
                EncryptedDoc(SignedDoc(xmlMarshal(req[r].Assertion)), OwnCertFile(req[r]))))

\* the gateway returned to MarshalAssertion and the call went on: no error,
\* or an error the policy waives
Passed(g, opts) == g # NoReturn /\ ~Aborts(g.err, opts)

\* C12, amended: a Response is assembled only when AssertionBuffer was set
\* at the call of MakeResponse or the MarshalAssertion it called returned
\* nil, and its payload is AssertionBuffer; MarshalAssertion returns nil,
\* and AssertionBuffer is assigned, only after Sign, given the serialized
\* assertion the request holds, and then Encrypt, given the bytes Sign
\* returned, each returned no error or an error the policy waives; the
\* buffer is then the trimmed output of that Encrypt.
C12_PayloadOfPassedSignAndEncrypt ==
    [][\A r \in Reqs :
          /\ req'[r].Response # req[r].Response =>
                /\ req'[r].Response.EncryptedAssertion.EncryptedData = req[r].AssertionBuffer
                /\ req'[r].AssertionBuffer = req[r].AssertionBuffer
                /\ \/ rPc[r] = "idle" /\ ~req[r].AssertionBuffer.nil
                   \/ rPc[r] = "marshal" /\ mPc[r] = "idle" /\ mRet[r] = Nil
          /\ (\/ req'[r].AssertionBuffer # req[r].AssertionBuffer
              \/ mPc[r] # "idle" /\ mPc'[r] = "idle" /\ mRet'[r] = Nil) =>
                /\ Passed(mSign'[r], idp.SecurityOpts)
                /\ Passed(mEnc'[r], idp.SecurityOpts)
                /\ Len(mCalls'[r]) = 2
                /\ mCalls'[r][1].fn = "Sign"
                /\ mCalls'[r][1].in = xmlMarshal(req[r].Assertion)
                /\ mCalls'[r][2].fn = "Encrypt"
                /\ mCalls'[r][2].in = mSign'[r].out.b
                /\ req'[r].AssertionBuffer = TrimmedBuffer(mEnc'[r].out)
      ]_vars

\* C12 witness: a Response was assembled after a signing error was waived,
\* and its payload is the trimmed output of the Encrypt that followed
C12_Witness ==
    \E r \in Reqs :
        /\ ~req[r].Response.nil
        /\ rPc[r] = "idle"
        /\ Waived(mSign[r])
        /\ mEnc[r] # NoReturn
        /\ Payload(r) = TrimmedBuffer(mEnc[r].out)

\* C13: a Response a request holds has a non-empty Destination, also after
\* MakeResponse has returned the missing-destination error.
C13_DestinationNeverEmpty ==
    \A r \in Reqs : req[r].Response.nil \/ req[r].Response.Destination # ""

\* MakeResponse of request r returns in this step
ResponseReturns(r) ==
    \/ rPc[r] = "marshal" /\ rPc'[r] = "idle"
    \/ rPc[r] = "idle" /\ rPc'[r] = "idle" /\ req'[r].Response # req[r].Response

MissingDestination == ErrorsNew("missing response destination")

\* C14 as stated: on a request with an assertion MakeResponse returns the
\* missing-destination error whenever the Recipient is empty, and otherwise
\* returns nil with Destination the Recipient and InResponseTo the request ID.
C14_FailsIffNoRecipient ==
    [][\A r \in Reqs :
          (ResponseReturns(r) /\ ~req[r].Assertion.nil) =>
              IF ConfirmationData(r).Recipient = ""
              THEN rRet'[r] = MissingDestination
              ELSE /\ rRet'[r] = Nil
                   /\ req'[r].Response.Destination = ConfirmationData(r).Recipient
                   /\ req'[r].Response.InResponseTo = req[r].ID
      ]_vars

\* C14, amended: on a request with an assertion, when the MarshalAssertion
\* that MakeResponse calls returns an error MakeResponse returns that error
\* and leaves req.Response as it is; otherwise it returns the
\* missing-destination error, which is not of a classified kind, whenever
\* the Recipient is empty, and else returns nil with Destination the
\* Recipient and InResponseTo the request ID.
C14_FailsIffNoRecipientOnceMarshalled ==
    [][\A r \in Reqs :
          (ResponseReturns(r) /\ ~req[r].Assertion.nil) =>
              IF rPc[r] = "marshal" /\ mRet[r] # Nil
              THEN /\ rRet'[r] = mRet[r]
                   /\ req'[r].Response = req[r].Response
              ELSE IF ConfirmationData(r).Recipient = ""
              THEN /\ rRet'[r] = MissingDestination
                   /\ rRet'[r].type \notin ClassifiedTypes
              ELSE /\ rRet'[r] = Nil
                   /\ req'[r].Response.Destination = ConfirmationData(r).Recipient
                   /\ req'[r].Response.InResponseTo = req[r].ID
      ]_vars

\* C14 witness: MakeResponse has returned the missing-destination error on
\* a request whose assertion has an empty Recipient
C14_Witness ==
    \E r \in Reqs :
        /\ ~req[r].Assertion.nil
        /\ ConfirmationData(r).Recipient = ""
        /\ rPc[r] = "idle"
        /\ rRet[r] = MissingDestination

\* C20: once MarshalAssertion has produced AssertionBuffer from the
\* assertion of a request, no call replaces or modifies req.Assertion.
C20_AssertionFixedOnceMarshalled ==
    [][\A r \in Reqs :
          (~req[r].AssertionBuffer.nil /\ ~req[r].Assertion.nil) =>
              req'[r].Assertion = req[r].Assertion
      ]_vars

---------------------------------------------------------------------------
(* Properties of issuance for several requests (SpecSeq, SpecIdp) *)

\* C15: every Encrypt call of MarshalAssertion is given the certificate file
\* of the service provider that sent the request, in any sequence of calls
\* on requests of different service providers.
C15_EncryptsWithOwnCert ==
    \A r \in Reqs :
        \A k \in DOMAIN mCalls[r] :
            mCalls[r][k].fn = "Encrypt" => mCalls[r][k].path = OwnCertFile(req[r])

\* C16: issuances that run at the same time do not interfere: the metadata
\* URL an issuance finds in the identity provider when it looks up the
\* certificate is the one it stored there, as when it runs alone.
C16_ReadsTheURLItWrote ==
    \A r \in Reqs :
        mPc[r] = "urlSet" => idp.SPMetadataURL = SPMetadataURLOf(req[r])

---------------------------------------------------------------------------
(* Properties of the gateway invocation that compare two runs (Spec) *)

\* the result streams a child can write
ResultStreams == {"", "OK", "<Assertion/>"}

\* C19: the error an invocation returns, nil or of a kind, is the one every
\* invocation of the same operation with the same diagnostic stream and
\* exit status returns, whatever its result stream.
C19_SameDiagnosticsSameError ==
    (pc = "done" /\ waited) =>
        \A other \in ResultStreams :
            Return(op, other, resErr, waitErr).err.type = ret.err.type

---------------------------------------------------------------------------
(* Properties of the resources of a gateway invocation (Spec) *)

\* C21: whenever Encrypt has returned, with a result or with any error, the
\* template file it created does not exist any more; and the file it
\* creates, and removes, is never one that another invocation holds.
C21_TemplateRemovedOnReturn ==
    /\ pc = "done" => tmpFile # "exists"
    /\ tmpFile # "none" => (tmpName \in TempNames /\ tmpName \notin otherTemps)

\* C21 witness: Encrypt has returned the error of a failed write to the
\* child, after it created its template file next to the one of another
\* invocation, and its file is removed
C21_Witness ==
    /\ op = "encrypt"
    /\ pc = "done"
    /\ ret.err = EPIPE
    /\ otherTemps # {}
    /\ tmpName \in TempNames
    /\ tmpFile = "removed"

\* C23: when an invocation has returned after its child was started, cmd.Wait
\* has been performed, also on the paths where writing the input fails.
C23_StartedChildIsWaitedFor ==
    (pc = "done" /\ childPc # "none") => waited

---------------------------------------------------------------------------
(* Properties of the order of the gateway calls of MarshalAssertion (SpecIdp) *)

\* the gateway calls one MarshalAssertion call on r has made are a prefix of
\* Sign, Encrypt
SignThenEncrypt(r) ==
    /\ Len(mCalls[r]) <= 2
    /\ \A k \in DOMAIN mCalls[r] : mCalls[r][k].fn = <<"Sign", "Encrypt">>[k]

\* C22: one MarshalAssertion call invokes Sign at most once and Encrypt at
\* most once, in that order; between them it gates the signing error and
\* resolves the certificate; Encrypt is given the bytes Sign returned and the
\* certificate resolved; after a failure nothing more is invoked.
C22_SignGateCertEncryptGateOnce ==
    \A r \in Reqs :
        /\ SignThenEncrypt(r)
        /\ mCalls[r] = <<>> => (mSign[r] = NoReturn /\ mEnc[r] = NoReturn)
        /\ Len(mCalls[r]) = 1 => (mSign[r] # NoReturn /\ mEnc[r] = NoReturn)
        /\ mPc[r] \in {"signed", "urlSet"} =>
              (Len(mCalls[r]) = 1 /\ Passed(mSign[r], idp.SecurityOpts) /\ mCert[r] = "")
        /\ mPc[r] = "certReady" =>
              (Len(mCalls[r]) = 1 /\ Passed(mSign[r], idp.SecurityOpts) /\ mCert[r] # "")
        /\ Len(mCalls[r]) = 2 =>
              /\ Passed(mSign[r], idp.SecurityOpts)
              /\ mCalls[r][2].in = mSign[r].out.b
              /\ mCert[r] # ""
              /\ mCalls[r][2].path = mCert[r]
              /\ mEnc[r] # NoReturn
              /\ mPc[r] = "idle"
        /\ (mRet[r] # NoReturn.err /\ mRet[r] # Nil) => mPc[r] = "idle"

\* C22 witness: a MarshalAssertion call has returned nil after Sign and then
\* Encrypt, each invoked once and each without error, Encrypt on the bytes
\* Sign returned
C22_Witness ==
    \E r \in Reqs :
        /\ mPc[r] = "idle"
        /\ mRet[r] = Nil
        /\ Len(mCalls[r]) = 2
        /\ mCalls[r][1].fn = "Sign"
        /\ mCalls[r][2].fn = "Encrypt"
        /\ mSign[r].err = Nil
        /\ ~mSign[r].out.nil
        /\ mCalls[r][2].in = mSign[r].out.b
        /\ mEnc[r].err = Nil

====
